---------------------------- MODULE Spec2Model ----------------------------
(***************************************************************************)
(* Model of Generator-for-college-student-file-transfer-form.py: the       *)
(* placeholder rewriter of WordGeneratorThread, the template scanner, the  *)
(* import / derivation of the data table, the missing-field workflow of    *)
(* batch_generate and the batch worker.                                    *)
(*                                                                         *)
(* A Python str is a sequence of characters; a character is a TLA+ string. *)
(* Chinese characters are written in pinyin, one symbol per character:     *)
(* "nian" is the character of the year column, <<"xue","hao">> the student *)
(* id column, <<"ban","ji">> the class column, <<"xing","ming">> the name  *)
(* column and <<"zhuan","dang","zi","hao">> the composite column.          *)
(***************************************************************************)
EXTENDS Integers, Sequences, FiniteSets, TLC

VARIABLES
    \* ---- replace_text_in_paragraph on one paragraph -------------------
    runs,        \* paragraph.runs: the text of each run, in order
    orig_runs,   \* the run texts when replace_text_in_paragraph was called
    prev_runs,   \* the run texts before the latest replace_placeholder_in_runs
    data,        \* the record: a sequence of <<key, value>> (dict order)
    key_i,       \* position of the for loop over data.items()
    full_text,   \* full_text, joined once before the loop
    \* ---- the template folders and a call of get_template_variables ----
    template_dirs,   \* ./template and ./muban: None, or Some(the .docx files)
    template_info,   \* None before the call, Some(what it returned) after
    excel_file,      \* the sheet of the file followed through an import, or None

    \* ---- the main window ----------------------------------------------
    excel_data,      \* self.excel_data: None, or Some(the DataFrame)
    data_table,      \* self.data_table
    batch,           \* batch_generate: where it stands, and its locals
    last_record,     \* what batch_generate did with the latest record
    message_box,     \* the latest QMessageBox shown
    status_bar,      \* the text of the status bar
    progress_dialog, \* the QProgressDialog of the batch: shown, label, value
    \* ---- the batch worker ----------------------------------------------
    generator_thread, \* self.generator_thread: None, or Some(the worker)
    launched,    \* number of WordGeneratorThread objects started so far
    signals,          \* notifications emitted and not yet delivered
    emitted,          \* every notification the worker has emitted
    output_files      \* the output folder: file name -> saved document

rvars == <<runs, orig_runs, prev_runs, data, key_i, full_text>>
tvars == <<template_dirs, template_info, excel_file>>
gvars == <<excel_data, data_table, batch, last_record, message_box, status_bar,
           progress_dialog>>
wvars == <<generator_thread, launched, signals, emitted, output_files>>

vars == <<rvars, tvars, gvars, wvars>>

\* an optional value: None, or Some(v) holding v
None == <<>>
Some(v) == <<v>>

-----------------------------------------------------------------------------
(* Strings *)

\* text[a:b] of Python for 0 <= a, b (0-based, b exclusive, clipped)
Slice(s, a, b) ==
    LET hi == IF b > Len(s) THEN Len(s) ELSE b
    IN  IF a >= hi THEN <<>> ELSE SubSeq(s, a + 1, hi)

\* s.startswith(p, i), 0-based i
MatchAt(s, p, i) ==
    /\ i + Len(p) <= Len(s)
    /\ \A k \in 1..Len(p) : s[i + k] = p[k]

\* str.find: the 0-based index of the first occurrence, or -1
Find(s, p) ==
    LET hits == {i \in 0..Len(s) : MatchAt(s, p, i)}
    IN  IF hits = {} THEN -1 ELSE CHOOSE i \in hits : \A j \in hits : i <= j

\* `p in s`
Contains(s, p) == Find(s, p) # -1

\* str.replace: every non-overlapping occurrence, left to right
RECURSIVE ReplaceFrom(_, _, _, _)
ReplaceFrom(s, p, r, i) ==
    IF i >= Len(s) THEN <<>>
    ELSE IF Len(p) > 0 /\ MatchAt(s, p, i)
         THEN r \o ReplaceFrom(s, p, r, i + Len(p))
         ELSE <<s[i + 1]>> \o ReplaceFrom(s, p, r, i + 1)

Replace(s, p, r) == ReplaceFrom(s, p, r, 0)

\* ''.join(run.text for run in runs)
RECURSIVE Join(_)
Join(rs) == IF rs = <<>> THEN <<>> ELSE Head(rs) \o Join(Tail(rs))

\* f"{{{{{key}}}}}"
Placeholder(key) == <<"{", "{">> \o key \o <<"}", "}">>

-----------------------------------------------------------------------------
(* WordGeneratorThread.replace_placeholder_in_runs *)

\* run_info[i]['start'] and ['end'] (0-based offsets in the joined text)
RunStart(rs, i) == Len(Join(SubSeq(rs, 1, i - 1)))
RunEnd(rs, i) == RunStart(rs, i) + Len(rs[i])

\* the indices of affected_runs, for the occurrence [pos, pos + n)
AffectedRuns(rs, pos, n) ==
    {i \in 1..Len(rs) :
        \/ RunStart(rs, i) <= pos /\ pos < RunEnd(rs, i)
        \/ RunStart(rs, i) < pos + n /\ pos + n <= RunEnd(rs, i)
        \/ RunStart(rs, i) >= pos /\ RunEnd(rs, i) <= pos + n}

Min(S) == CHOOSE x \in S : \A y \in S : x <= y
Max(S) == CHOOSE x \in S : \A y \in S : x >= y

\* a variant that drops the tail of the last affected run
FirstRunTextDropTail(rs, placeholder, replacement) ==
    LET text == Join(rs)
        pos == Find(text, placeholder)
        first == Min(AffectedRuns(rs, pos, Len(placeholder)))
    IN  Slice(text, RunStart(rs, first), pos) \o replacement

\* the text assigned to first_run
FirstRunText(rs, placeholder, replacement) ==
    LET text == Join(rs)
        pos == Find(text, placeholder)
        n == Len(placeholder)
        aff == AffectedRuns(rs, pos, n)
        first == Min(aff)
        last == Max(aff)
        before_placeholder == Slice(text, 0, pos)
        after_placeholder == Slice(text, pos + n, Len(text))
        first_run_start == RunStart(rs, first)
        first_run_text_before ==
            IF first_run_start < Len(before_placeholder)
            THEN Slice(before_placeholder, first_run_start, Len(before_placeholder))
            ELSE <<>>
        remaining_text_start == pos + n
        remaining_in_last ==
            IF Cardinality(aff) > 1 /\ RunEnd(rs, last) > remaining_text_start
            THEN Slice(after_placeholder, 0, RunEnd(rs, last) - remaining_text_start)
            ELSE <<>>
    IN  first_run_text_before \o replacement \o remaining_in_last

\* the run texts after replace_placeholder_in_runs(runs, placeholder, replacement)
replace_placeholder_in_runs(rs, placeholder, replacement) ==
    LET text == Join(rs)
        new_text == Replace(text, placeholder, replacement)
        pos == Find(text, placeholder)
        aff == AffectedRuns(rs, pos, Len(placeholder))
    IN  IF new_text = text THEN rs
        ELSE IF pos = -1 THEN rs
        ELSE IF aff = {} THEN rs
        ELSE [i \in 1..Len(rs) |->
                IF i = Min(aff) THEN FirstRunText(rs, placeholder, replacement)
                ELSE IF i \in aff THEN <<>>
                ELSE rs[i]]

\* str(value) if value else ''
ValueText(value) == IF value = <<>> THEN <<>> ELSE value

\* one iteration of the loop of replace_text_in_paragraph, for data item kv
ReplaceItem(rs, ft, kv) ==
    IF Contains(ft, Placeholder(kv[1]))
    THEN replace_placeholder_in_runs(rs, Placeholder(kv[1]), ValueText(kv[2]))
    ELSE rs

\* replace_text_in_paragraph(paragraph, data): the run texts afterwards
RECURSIVE ReplaceItems(_, _, _)
ReplaceItems(rs, ft, items) ==
    IF items = <<>> THEN rs
    ELSE ReplaceItems(ReplaceItem(rs, ft, Head(items)), ft, Tail(items))

replace_text_in_paragraph(rs, d) == ReplaceItems(rs, Join(rs), d)

-----------------------------------------------------------------------------
(* Column names *)

F_select == <<"xuan", "ze">>
F_year == <<"nian">>
F_month == <<"yue">>
F_day == <<"ri">>
F_student_id == <<"xue", "hao">>
F_class_name == <<"ban", "ji">>
F_name == <<"xing", "ming">>
F_transfer_number == <<"zhuan", "dang", "zi", "hao">>
F_grade == <<"jie">>

\* date_field_names, in priority order
date_field_names ==
    <<<<"ti", "jiao", "shi", "jian">>, <<"ti", "jiao", "ri", "qi">>, <<"ri", "qi">>,
      <<"shi", "jian">>, <<"chuang", "jian", "shi", "jian">>,
      <<"geng", "xin", "shi", "jian">>>>

-----------------------------------------------------------------------------
(* Cell values of the DataFrame: a str, a datetime, or NaN *)

Str(t) == [kind |-> "str", s |-> t, year |-> <<>>, month |-> <<>>, day |-> <<>>]
NaN == [kind |-> "nan", s |-> <<>>, year |-> <<>>, month |-> <<>>, day |-> <<>>]
\* a datetime, its year, month and day given in decimal digits
DateTime(y, m, d) == [kind |-> "datetime", s |-> <<>>, year |-> y, month |-> m, day |-> d]

Digits == {"0", "1", "2", "3", "4", "5", "6", "7", "8", "9"}

\* s.isdigit()
IsDigit(t) == Len(t) > 0 /\ \A i \in 1..Len(t) : t[i] \in Digits

\* str(int(s)) for a string of digits: leading zeros removed
RECURSIVE StrInt(_)
StrInt(t) == IF Len(t) > 1 /\ t[1] = "0" THEN StrInt(Tail(t)) ELSE t

\* s.strip(), for the white space " "
RECURSIVE LStrip(_)
LStrip(t) == IF Len(t) > 0 /\ t[1] = " " THEN LStrip(Tail(t)) ELSE t
RECURSIVE RStrip(_)
RStrip(t) == IF Len(t) > 0 /\ t[Len(t)] = " " THEN RStrip(SubSeq(t, 1, Len(t) - 1)) ELSE t
Strip(t) == RStrip(LStrip(t))

\* s.split(sep) for a separator of one character
RECURSIVE Split(_, _)
Split(t, sep) ==
    LET hits == {i \in 1..Len(t) : t[i] = sep}
    IN  IF hits = {} THEN <<t>>
        ELSE LET i == Min(hits)
             IN  <<SubSeq(t, 1, i - 1)>> \o Split(SubSeq(t, i + 1, Len(t)), sep)

\* two digits, zero padded
Pad2(t) == IF Len(t) < 2 THEN <<"0">> \o t ELSE t

\* str(value) of a cell
CellStr(v) ==
    IF v.kind = "str" THEN v.s
    ELSE IF v.kind = "nan" THEN <<"n", "a", "n">>
    ELSE v.year \o <<"-">> \o Pad2(v.month) \o <<"-">> \o Pad2(v.day)
            \o <<" ", "0", "0", ":", "0", "0", ":", "0", "0">>

\* the text display_data gives the item of a cell
ItemText(v) ==
    IF v.kind = "nan" THEN <<>>
    ELSE IF v.kind = "datetime"
         THEN v.year \o <<"/">> \o Pad2(v.month) \o <<"/">> \o Pad2(v.day)
                \o <<" ", "0", "0", ":", "0", "0", ":", "0", "0">>
    ELSE v.s

-----------------------------------------------------------------------------
(* The DataFrame self.excel_data: [columns, rows], a row maps a column to a cell *)

HasColumn(df, c) == \E i \in 1..Len(df.columns) : df.columns[i] = c

\* self.excel_data.at[idx, c] = v: a new column is NaN in the other rows
AtSet(df, idx, c, v) ==
    IF HasColumn(df, c)
    THEN [df EXCEPT !.rows[idx][c] = v]
    ELSE [columns |-> Append(df.columns, c),
          rows |-> [i \in 1..Len(df.rows) |->
                      [k \in DOMAIN df.rows[i] \cup {c} |->
                          IF k = c THEN (IF i = idx THEN v ELSE NaN)
                          ELSE df.rows[i][k]]]]

\* excel_data.fillna(''): every NaN cell of the sheet as read becomes ''
fillna(df) ==
    [df EXCEPT !.rows = [i \in 1..Len(df.rows) |->
        [c \in DOMAIN df.rows[i] |->
            IF df.rows[i][c].kind = "nan" THEN Str(<<>>) ELSE df.rows[i][c]]]]

\* the first name of date_field_names among the columns, or None
DateField(df) ==
    LET hits == {i \in 1..Len(date_field_names) : HasColumn(df, date_field_names[i])}
    IN  IF hits = {} THEN None ELSE Some(date_field_names[Min(hits)])

MonthDayTextVerbatim(part) == part

\* str(int(part)) if part.isdigit() else part
MonthDayText(part) == IF IsDigit(part) THEN StrInt(part) ELSE part

\* the three assignments for the parts of a date string
SetDateParts(df, idx, parts) ==
    AtSet(AtSet(AtSet(df, idx, F_year, Str(Strip(parts[1]))),
                idx, F_month, Str(MonthDayText(parts[2]))),
          idx, F_day, Str(MonthDayText(parts[3])))

\* the body of the first loop of process_date_fields for row idx
ExtractDate(df, idx, date_field) ==
    LET date_value == df.rows[idx][date_field]
    IN  IF date_value.kind = "nan" \/ (date_value.kind = "str" /\ date_value.s = <<>>)
        THEN df
        ELSE IF date_value.kind = "datetime"
        THEN AtSet(AtSet(AtSet(df, idx, F_year, Str(date_value.year)),
                         idx, F_month, Str(date_value.month)),
                   idx, F_day, Str(date_value.day))
        ELSE LET date_str == Strip(date_value.s)
                 date_part == IF \E i \in 1..Len(date_str) : date_str[i] = " "
                              THEN Split(date_str, " ")[1] ELSE date_str
             IN  IF \E i \in 1..Len(date_part) : date_part[i] = "/"
                 THEN IF Len(Split(date_part, "/")) >= 3
                      THEN SetDateParts(df, idx, Split(date_part, "/")) ELSE df
                 ELSE IF \E i \in 1..Len(date_part) : date_part[i] = "-"
                 THEN IF Len(Split(date_part, "-")) >= 3
                      THEN SetDateParts(df, idx, Split(date_part, "-")) ELSE df
                 ELSE df

RECURSIVE ExtractDates(_, _, _)
ExtractDates(df, idx, date_field) ==
    IF idx > Len(df.rows) THEN df
    ELSE ExtractDates(ExtractDate(df, idx, date_field), idx + 1, date_field)

\* str(row[c]) if pd.notna(row[c]) else ''
NotNaStr(v) == IF v.kind = "nan" THEN <<>> ELSE CellStr(v)

\* year[-2:] if len(year) >= 2 else year
YearSuffix(year) == IF Len(year) >= 2 THEN SubSeq(year, Len(year) - 1, Len(year)) ELSE year

\* f"{year_suffix}{student_id}_{class_name}"
TransferNumber(year, student_id, class_name) ==
    YearSuffix(year) \o student_id \o <<"_">> \o class_name

\* the body of the second loop of process_date_fields for row idx
DeriveTransferNumber(df, idx) ==
    LET year == NotNaStr(df.rows[idx][F_year])
        student_id == NotNaStr(df.rows[idx][F_student_id])
        class_name == NotNaStr(df.rows[idx][F_class_name])
    IN  IF year # <<>> /\ student_id # <<>> /\ class_name # <<>>
        THEN AtSet(df, idx, F_transfer_number,
                   Str(TransferNumber(year, student_id, class_name)))
        ELSE df

RECURSIVE DeriveTransferNumbers(_, _)
DeriveTransferNumbers(df, idx) ==
    IF idx > Len(df.rows) THEN df
    ELSE DeriveTransferNumbers(DeriveTransferNumber(df, idx), idx + 1)

\* the second part of process_date_fields
GenerateTransferNumbers(df) ==
    IF HasColumn(df, F_year) /\ HasColumn(df, F_student_id) /\ HasColumn(df, F_class_name)
    THEN DeriveTransferNumbers(df, 1)
    ELSE df

\* self.excel_data after process_date_fields
process_date_fields(df) ==
    IF DateField(df) = None THEN df
    ELSE GenerateTransferNumbers(ExtractDates(df, 1, DateField(df)[1]))


-----------------------------------------------------------------------------
(* The QTableWidget self.data_table: [headers, items, checks]; column 1 is  *)
(* the check box column, items[r][c] is None or Some(text)                  *)

EmptyTable == [headers |-> <<>>, items |-> <<>>, checks |-> <<>>]

\* the column whose header is name (the last one, as the loop keeps it), or 0
ColumnOf(t, name) ==
    LET hits == {c \in 1..Len(t.headers) : t.headers[c] = name}
    IN  IF hits = {} THEN 0 ELSE Max(hits)

\* update_transfer_number_for_row(row)
update_transfer_number_for_row(t, row) ==
    LET year_col == ColumnOf(t, F_year)
        student_id_col == ColumnOf(t, F_student_id)
        class_col == ColumnOf(t, F_class_name)
        transfer_col == ColumnOf(t, F_transfer_number)
    IN  IF year_col > 0 /\ student_id_col > 0 /\ class_col > 0
        THEN LET year_item == t.items[row][year_col]
                 student_id_item == t.items[row][student_id_col]
                 class_item == t.items[row][class_col]
             IN  IF year_item # None /\ student_id_item # None /\ class_item # None
                 THEN LET year == Strip(year_item[1])
                          student_id == Strip(student_id_item[1])
                          class_name == Strip(class_item[1])
                      IN  IF year # <<>> /\ student_id # <<>> /\ class_name # <<>>
                              /\ transfer_col > 0
                          THEN [t EXCEPT !.items[row][transfer_col] =
                                   Some(TransferNumber(year, student_id, class_name))]
                          ELSE t
                 ELSE t
        ELSE t

\* on_table_item_changed(item), for the item at (row, col)
on_table_item_changed(t, row, col) ==
    IF t.headers[col] \in {F_year, F_student_id, F_class_name}
    THEN update_transfer_number_for_row(t, row)
    ELSE t

\* self.data_table.setItem(row, col, QTableWidgetItem(text)), which emits
\* itemChanged to on_table_item_changed
SetItem(t, row, col, text) ==
    on_table_item_changed([t EXCEPT !.items[row][col] = Some(text)], row, col)

\* setRowCount, setColumnCount and setHorizontalHeaderLabels of display_data:
\* the items of the cells that stay are kept
ResizeTable(t, df) ==
    [headers |-> <<F_select>> \o df.columns,
     items |-> [r \in 1..Len(df.rows) |->
                  [c \in 1..(Len(df.columns) + 1) |->
                      IF r <= Len(t.items) /\ c <= Len(t.headers)
                      THEN t.items[r][c] ELSE None]],
     checks |-> [r \in 1..Len(df.rows) |->
                  IF r <= Len(t.checks) THEN t.checks[r] ELSE FALSE]]

\* the inner loop of display_data over the columns of row r, from column c
RECURSIVE DisplayCells(_, _, _, _)
DisplayCells(t, df, r, c) ==
    IF c > Len(df.columns) THEN t
    ELSE DisplayCells(SetItem(t, r, c + 1, ItemText(df.rows[r][df.columns[c]])),
                      df, r, c + 1)

\* the outer loop of display_data, from row r: the check box, then the cells
RECURSIVE DisplayRows(_, _, _)
DisplayRows(t, df, r) ==
    IF r > Len(df.rows) THEN t
    ELSE DisplayRows(
            DisplayCells([t EXCEPT !.items[r][1] = Some(<<>>), !.checks[r] = FALSE],
                         df, r, 1),
            df, r + 1)

\* self.data_table after display_data
display_data(t, df) == DisplayRows(ResizeTable(t, df), df, 1)

\* get_row_data_from_table(row_idx): the dict, as a sequence of <<key, value>>
get_row_data_from_table(t, row_idx) ==
    [c \in 1..(Len(t.headers) - 1) |->
        <<t.headers[c + 1],
          IF t.items[row_idx][c + 1] # None THEN t.items[row_idx][c + 1][1] ELSE <<>>>>]


-----------------------------------------------------------------------------
(* The main window after ArchiveTransferGenerator.__init__, no worker yet *)

Idle == [pc |-> "idle", selected_rows |-> <<>>, row_i |-> 0, data_rows |-> <<>>,
         template_path |-> None, template_variables |-> {}, output_dir |-> None]

NoRecord == [row |-> 0, row_data |-> <<>>, missing |-> {}, dialog |-> "none",
             filled_values |-> <<>>, queued |-> None]

NoMessage == [icon |-> "none", title |-> "none", text |-> None, count |-> None]

NoProgress == [shown |-> FALSE, label |-> None, value |-> 0]

WindowInit ==
    /\ excel_data = None
    /\ data_table = EmptyTable
    /\ batch = Idle
    /\ last_record = NoRecord
    /\ message_box = NoMessage
    /\ status_bar = "ready"
    /\ progress_dialog = NoProgress
    /\ generator_thread = None
    /\ launched = 0
    /\ signals = <<>>
    /\ emitted = <<>>
    /\ output_files = <<>>


-----------------------------------------------------------------------------
(* Paragraphs and records the rewriter is run on *)

MaxPieces == 2
MaxRuns == 3

KeyA == <<"A">>
KeyB == <<"B">>

Pieces == {Placeholder(KeyA), Placeholder(KeyB), <<"a">>}

RECURSIVE JoinPieces(_)
JoinPieces(ps) == IF ps = <<>> THEN <<>> ELSE Head(ps) \o JoinPieces(Tail(ps))

Texts == UNION {{JoinPieces(ps) : ps \in [1..n -> Pieces]} : n \in 0..MaxPieces}

\* every way to cut text t into k consecutive runs, empty runs included
RECURSIVE Cuts(_, _)
Cuts(t, k) ==
    IF k = 1 THEN {<<t>>}
    ELSE UNION {{<<Slice(t, 0, c)>> \o rest : rest \in Cuts(Slice(t, c, Len(t)), k - 1)}
                    : c \in 0..Len(t)}

Paragraphs == UNION {Cuts(t, k) : t \in Texts, k \in 1..MaxRuns}

Records ==
    {<<>>} \cup
    {<<<<KeyA, v>>>> : v \in {<<>>, <<"x">>}} \cup
    {<<<<KeyB, <<"y">>>>>>} \cup
    {<<<<KeyA, v>>, <<KeyB, <<"y">>>>>> : v \in {<<>>, <<"x">>}} \cup
    {<<<<KeyB, <<"y">>>>, <<KeyA, v>>>> : v \in {<<>>, <<"x">>}}

-----------------------------------------------------------------------------
(* replace_text_in_paragraph as a process: one loop iteration per step *)

RewriteInit ==
    /\ runs \in Paragraphs
    /\ orig_runs = runs
    /\ prev_runs = runs
    /\ data \in Records
    /\ key_i = 1
    /\ full_text = Join(runs)
    /\ template_dirs = [primary |-> None, fallback |-> None]
    /\ template_info = None
    /\ excel_file = None
    /\ WindowInit

ReplaceKey ==
    /\ key_i <= Len(data)
    /\ prev_runs' = runs
    /\ runs' = ReplaceItem(runs, full_text, data[key_i])
    /\ key_i' = key_i + 1
    /\ UNCHANGED <<orig_runs, data, full_text, tvars, gvars, wvars>>

RewriteNext == ReplaceKey

SpecRewrite == RewriteInit /\ [][RewriteNext]_vars

RewriteDone == key_i > Len(data)


-----------------------------------------------------------------------------
(* Properties of the rewriter *)

\* the number of occurrences of p in s
Count(s, p) == Cardinality({i \in 0..Len(s) : MatchAt(s, p, i)})

\* the keys of the record whose placeholder starts at offset i of s
KeysAt(s, d, i) == {j \in 1..Len(d) : MatchAt(s, Placeholder(d[j][1]), i)}

\* s with every placeholder of a key of d replaced by the key's value, and
\* every other character kept
RECURSIVE Substitute(_, _, _)
Substitute(s, d, i) ==
    IF i >= Len(s) THEN <<>>
    ELSE IF KeysAt(s, d, i) # {}
         THEN LET j == CHOOSE j \in KeysAt(s, d, i) : TRUE
              IN  ValueText(d[j][2]) \o Substitute(s, d, i + Len(Placeholder(d[j][1])))
         ELSE <<s[i + 1]>> \o Substitute(s, d, i + 1)

\* C1: after replace_text_in_paragraph the joined run texts equal the
\* original joined text with every placeholder of a record key replaced by
\* the key's value and every other character kept in order.
C1_RewriteIsSubstitution ==
    RewriteDone => Join(runs) = Substitute(Join(orig_runs), data, 0)

\* the runs that hold at least one character of the occurrence [pos, pos + n)
HoldingRuns(rs, pos, n) ==
    {i \in 1..Len(rs) : RunStart(rs, i) < pos + n /\ RunEnd(rs, i) > pos}

\* the runs that overlap the occurrence: those holding a character of it and
\* the empty runs lying between its first and its last character
OverlappingRuns(rs, pos, n) ==
    HoldingRuns(rs, pos, n) \cup
    {i \in 1..Len(rs) : rs[i] = <<>> /\ pos <= RunStart(rs, i) /\ RunStart(rs, i) <= pos + n}

\* the latest loop iteration called replace_placeholder_in_runs for an
\* occurrence whose characters lie in two or more runs
SplitStep ==
    /\ key_i > 1
    /\ Contains(full_text, Placeholder(data[key_i - 1][1]))
    /\ Contains(Join(prev_runs), Placeholder(data[key_i - 1][1]))
    /\ LET ph == Placeholder(data[key_i - 1][1])
       IN  Cardinality(HoldingRuns(prev_runs, Find(Join(prev_runs), ph), Len(ph))) >= 2

\* the first overlapping run holds its text before the occurrence, the
\* replacement and the rest of the last overlapping run; the others are empty
SplitResult ==
    LET ph == Placeholder(data[key_i - 1][1])
        text == Join(prev_runs)
        pos == Find(text, ph)
        over == OverlappingRuns(prev_runs, pos, Len(ph))
        first == Min(over)
        last == Max(HoldingRuns(prev_runs, pos, Len(ph)))
    IN  /\ runs[first] = Slice(text, RunStart(prev_runs, first), pos)
                            \o ValueText(data[key_i - 1][2])
                            \o Slice(text, pos + Len(ph), RunEnd(prev_runs, last))
        /\ \A i \in over \ {first} : runs[i] = <<>>
        /\ Len(runs) = Len(prev_runs)

ScenarioA == <<<<"{", "{", "A">>, <<"}", "}">> \o Placeholder(KeyB)>>

ScenarioARecord(d) ==
    /\ Len(d) = 2
    /\ {d[1], d[2]} = {<<KeyA, <<"x">>>>, <<KeyB, <<"y">>>>}

\* the first key's placeholder was split over two or more runs and the second
\* key's placeholder lay in the rest of the last of these runs
TokenInRemainder ==
    /\ Len(data) = 2
    /\ Contains(full_text, Placeholder(data[1][1]))
    /\ LET ph == Placeholder(data[1][1])
           text == Join(orig_runs)
           pos == Find(text, ph)
           hold == HoldingRuns(orig_runs, pos, Len(ph))
       IN  /\ Cardinality(hold) >= 2
           /\ Contains(Slice(text, pos + Len(ph), RunEnd(orig_runs, Max(hold))),
                       Placeholder(data[2][1]))

C9_NoRepeatedPlaceholderRemains ==
    RewriteDone =>
        \A j \in 1..Len(data) :
            Count(Join(orig_runs), Placeholder(data[j][1])) >= 2
                => ~Contains(Join(runs), Placeholder(data[j][1]))

-----------------------------------------------------------------------------
(* ArchiveTransferGenerator.get_template_variables: the scan *)

\* the characters \w matches, among those of the model
WordChars ==
    {"A", "B", "a", "x", "y", "_", "0", "1", "2", "3", "4", "5",
     "6", "7", "8", "9", "c", "n",
     "nian", "yue", "ri", "xue", "hao", "ban", "ji", "xing", "ming",
     "zhuan", "dang", "zi", "jie", "ti", "jiao", "shi", "jian", "qi",
     "chuang", "geng", "xin", "xuan", "ze"}

\* the offset after the longest run of word characters starting at offset i
RECURSIVE WordEnd(_, _)
WordEnd(s, i) ==
    IF i < Len(s) /\ s[i + 1] \in WordChars THEN WordEnd(s, i + 1) ELSE i

\* re.findall(r'\{\{(\w+)\}\}', s), as a set, scanning from offset i
RECURSIVE FindAllFrom(_, _)
FindAllFrom(s, i) ==
    IF i >= Len(s) THEN {}
    ELSE LET e == WordEnd(s, i + 2)
         IN  IF /\ MatchAt(s, <<"{", "{">>, i)
                /\ e > i + 2
                /\ MatchAt(s, <<"}", "}">>, e)
             THEN {Slice(s, i + 2, e)} \cup FindAllFrom(s, e + 2)
             ELSE FindAllFrom(s, i + 1)

FindAll(s) == FindAllFrom(s, 0)

\* a variant that reads the first run only
FirstRunOnly(par) == IF par.runs # <<>> THEN par.runs[1] ELSE par.text

\* ''.join(run.text for run in paragraph.runs) if paragraph.runs else paragraph.text
ScannedText(par) == IF par.runs # <<>> THEN Join(par.runs) ELSE par.text

\* the elements of a sequence
Range(f) == {f[i] : i \in DOMAIN f}

\* the paragraphs of the cells of the rows of the tables of doc
CellParagraphs(doc) ==
    UNION {UNION {UNION {Range(cell) : cell \in Range(row)} : row \in Range(table)}
              : table \in Range(doc.tables)}

\* the set `variables` built by the two loops over doc.paragraphs and doc.tables
ScanDocument(doc) ==
    UNION {FindAll(ScannedText(par)) : par \in Range(doc.paragraphs)}
    \cup UNION {FindAll(ScannedText(par)) : par \in CellParagraphs(doc)}

\* variant that falls back when the primary folder holds no .docx file
TemplateDirOrFallback(dirs) ==
    IF dirs.primary # None /\ dirs.primary[1] # <<>> THEN Some("primary")
    ELSE IF dirs.fallback # None THEN Some("fallback")
    ELSE IF dirs.primary # None THEN Some("primary")
    ELSE None

\* template_dir: "primary" (./template), "fallback" (./muban, looked at only
\* when ./template does not exist), or None when neither exists
TemplateDir(dirs) ==
    IF dirs.primary # None THEN Some("primary")
    ELSE IF dirs.fallback # None THEN Some("fallback")
    ELSE None

\* list(template_dir.glob('*.docx'))
TemplateFiles(dirs, dir) == IF dir = "primary" THEN dirs.primary[1] ELSE dirs.fallback[1]

\* Document(template_path): the file template_files[0] of folder dir
TemplateDocument(dirs, dir) == TemplateFiles(dirs, dir)[1]

\* get_template_variables(): None, or Some(<<template_path, variables>>), the
\* path being the folder whose first .docx file is the template
get_template_variables(dirs) ==
    IF TemplateDir(dirs) = None THEN None
    ELSE LET dir == TemplateDir(dirs)[1]
         IN  IF TemplateFiles(dirs, dir) = <<>> THEN None
             ELSE IF ~TemplateDocument(dirs, dir).readable THEN None
             ELSE Some(<<dir, ScanDocument(TemplateDocument(dirs, dir))>>)

-----------------------------------------------------------------------------
(* Templates the scan is run on *)

MaxScanPieces == 2
MaxScanRuns == 2

ScanPieces ==
    {Placeholder(KeyA), Placeholder(<<"A", "B">>), <<"{">>, <<"}">>, <<" ">>}

ScanTexts == UNION {{JoinPieces(ps) : ps \in [1..n -> ScanPieces]} : n \in 0..MaxScanPieces}

\* a paragraph with runs, whose text is that of its runs
RunParagraph(rs) == [runs |-> rs, text |-> Join(rs)]

\* a paragraph without runs: its text lies outside runs (a hyperlink)
TextParagraph(t) == [runs |-> <<>>, text |-> t]

ScanParagraphs ==
    {RunParagraph(rs) : rs \in UNION {Cuts(t, k) : t \in ScanTexts, k \in 1..MaxScanRuns}}
    \cup {TextParagraph(t) : t \in ScanTexts}

\* a table of one row of one cell holding paragraph par
OneCellTable(par) == <<<<<<par>>>>>>

OtherParagraphs ==
    {RunParagraph(<<Placeholder(KeyB)>>),
     RunParagraph(<<<<"{", "{", "A">>, <<"}", "}">>>>)}

Doc(pars, tabs) == [readable |-> TRUE, paragraphs |-> pars, tables |-> tabs]

\* a .docx file that Document() cannot read
UnreadableDoc == [readable |-> FALSE, paragraphs |-> <<>>, tables |-> <<>>]

\* the templates built around paragraph par: an empty document, par in the
\* body, par in a table cell, par in a table cell below another paragraph
ScanDocsOf(par) ==
    {Doc(<<>>, <<>>), Doc(<<par>>, <<>>), Doc(<<>>, <<OneCellTable(par)>>)}
    \cup {Doc(<<other>>, <<OneCellTable(par)>>) : other \in OtherParagraphs}

ScanInit ==
    /\ \E par \in ScanParagraphs : \E doc \in ScanDocsOf(par) :
          template_dirs = [primary |-> Some(<<doc>>), fallback |-> None]
    /\ template_info = None
    /\ excel_file = None
    /\ runs = <<>>
    /\ orig_runs = <<>>
    /\ prev_runs = <<>>
    /\ data = <<>>
    /\ key_i = 1
    /\ full_text = <<>>
    /\ WindowInit

\* a call of get_template_variables
ScanTemplate ==
    /\ template_info = None
    /\ template_info' = Some(get_template_variables(template_dirs))
    /\ UNCHANGED <<template_dirs, excel_file, rvars, gvars, wvars>>

ScanNext == ScanTemplate

SpecScan == ScanInit /\ [][ScanNext]_vars

\* the template that was scanned, and the set the scan returned
ScannedDoc == template_dirs.primary[1][1]
ScanReturned == template_info # None /\ template_info[1] # None
ScanVariables == template_info[1][1][2]

-----------------------------------------------------------------------------
(* Properties of the scan *)

\* the identifiers w, one or more word characters, with {{w}} occurring in s
TokensIn(s) ==
    {Slice(s, i + 2, j) : <<i, j>> \in
        {ij \in (0..Len(s)) \X (0..Len(s)) :
            /\ ij[1] + 2 < ij[2]
            /\ MatchAt(s, <<"{", "{">>, ij[1])
            /\ MatchAt(s, <<"}", "}">>, ij[2])
            /\ \A k \in (ij[1] + 3)..ij[2] : s[k] \in WordChars}}

AllParagraphs(doc) == Range(doc.paragraphs) \cup CellParagraphs(doc)

\* the joined run texts of a paragraph that has runs, paragraph.text otherwise
TextRead(par) == IF Len(par.runs) > 0 THEN Join(par.runs) ELSE par.text

\* C10 as stated: the scan returns exactly the identifiers whose token occurs
\* in the joined run texts of a body paragraph or of a table-cell paragraph.
C10_ScanIsTokensOfRuns ==
    ScanReturned =>
        ScanVariables = UNION {TokensIn(Join(par.runs)) : par \in AllParagraphs(ScannedDoc)}

\* C10, amended: the scan returns exactly the identifiers whose token occurs
\* in the scanned text of a body paragraph or of a table-cell paragraph, the
\* scanned text being the joined run texts of a paragraph that has runs and
\* paragraph.text of a paragraph that has none; a split token is found,
\* duplicates count once and a template without tokens gives the empty set.
C10_ScanIsTokensOfScannedText ==
    ScanReturned =>
        ScanVariables = UNION {TokensIn(TextRead(par)) : par \in AllParagraphs(ScannedDoc)}

\* a token split across two runs of a table-cell paragraph was found, next to
\* the token of a body paragraph
C10_Witness ==
    /\ ScanReturned
    /\ ScanVariables = {KeyA, KeyB}
    /\ ScannedDoc.paragraphs = <<RunParagraph(<<Placeholder(KeyB)>>)>>
    /\ ScannedDoc.tables =
          <<OneCellTable(RunParagraph(<<<<"{", "{">>, <<"A", "}", "}">>>>))>>

-----------------------------------------------------------------------------
(* Python dicts, as sequences of <<key, value>> in insertion order *)

DictHas(d, k) == \E i \in 1..Len(d) : d[i][1] = k

\* d.get(k, default)
DictGet(d, k, default) ==
    IF DictHas(d, k) THEN d[CHOOSE i \in 1..Len(d) : d[i][1] = k][2] ELSE default

\* d[k] = v
DictSet(d, k, v) ==
    IF DictHas(d, k)
    THEN [i \in 1..Len(d) |-> IF d[i][1] = k THEN <<k, v>> ELSE d[i]]
    ELSE Append(d, <<k, v>>)

-----------------------------------------------------------------------------
(* WordGeneratorThread.generate_single_doc *)

\* a paragraph after replace_text_in_paragraph(paragraph, d)
RenderParagraph(par, d) ==
    IF par.runs = <<>> THEN par
    ELSE RunParagraph(replace_text_in_paragraph(par.runs, d))

\* the document after the two loops over doc.paragraphs and doc.tables
RenderDocument(doc, d) ==
    [readable |-> TRUE,
     paragraphs |-> [i \in 1..Len(doc.paragraphs) |-> RenderParagraph(doc.paragraphs[i], d)],
     tables |-> [t \in 1..Len(doc.tables) |->
                   [r \in 1..Len(doc.tables[t]) |->
                      [c \in 1..Len(doc.tables[t][r]) |->
                         [k \in 1..Len(doc.tables[t][r][c]) |->
                            RenderParagraph(doc.tables[t][r][c][k], d)]]]]]

\* the characters re.sub(r'[<>:"/\\|?*]', '_', filename) replaces; the double
\* quote is written "quote" and the backslash "backslash"
IllegalChars == {"<", ">", ":", "quote", "/", "backslash", "|", "?", "*"}

Sanitize(t) == [i \in 1..Len(t) |-> IF t[i] \in IllegalChars THEN "_" ELSE t[i]]

unknown == <<"u", "n", "k", "n", "o", "w", "n">>

\* filename of generate_single_doc
FileName(d) ==
    Sanitize(DictGet(d, F_student_id, unknown) \o <<"_">>
             \o DictGet(d, F_name, unknown) \o <<"_">>
             \o DictGet(d, F_class_name, unknown) \o <<".", "d", "o", "c", "x">>)

\* the output folder after doc.save(output_path)
SaveFile(files, name, doc) ==
    [n \in DOMAIN files \cup {name} |-> IF n = name THEN doc ELSE files[n]]

-----------------------------------------------------------------------------
(* Notifications of WordGeneratorThread: status(str), progress(int),       *)
(* finished(int), error(str)                                               *)

StatusSignal(d) == [kind |-> "status", text |-> Some(DictGet(d, F_name, unknown)), value |-> None]
ProgressSignal(v) == [kind |-> "progress", text |-> None, value |-> Some(v)]
FinishedSignal(n) == [kind |-> "finished", text |-> None, value |-> Some(n)]
ErrorSignal(msg) == [kind |-> "error", text |-> Some(msg), value |-> None]

\* A Python float is an IEEE 754 double.  Its 53 significant bits are kept
\* in three limbs, hi * 2^36 + mid * 2^18 + lo, and z counts the zeros
\* between the binary point and the first significant bit of the quotient:
\* the float is (hi * 2^36 + mid * 2^18 + lo) * 2^-(z + 53).
Precision == 53
LimbBits == 18
Limb == 2^LimbBits
HiBits == Precision - 2 * LimbBits

RECURSIVE LeadingZeros(_, _)
LeadingZeros(r, total) == IF 2 * r >= total THEN 0 ELSE 1 + LeadingZeros(2 * r, total)

\* the limbs with the carries moved up
Carry(m) ==
    LET mid == m[2] + m[3] \div Limb
    IN  <<m[1] + mid \div Limb, mid % Limb, m[3] % Limb>>

\* done / total for 0 < done <= total: the quotient by long division,
\* rounded to nearest, ties to even
TrueDiv(done, total) ==
    LET z == LeadingZeros(done, total)
        r0 == done * 2^z
        r1 == (r0 * 2^HiBits) % total
        r2 == (r1 * Limb) % total
        r3 == (r2 * Limb) % total
        lo == (r2 * Limb) \div total
        up == 2 * r3 > total \/ (2 * r3 = total /\ lo % 2 = 1)
    IN  [limbs |-> Carry(<<(r0 * 2^HiBits) \div total, (r1 * Limb) \div total,
                           lo + IF up THEN 1 ELSE 0>>),
         z |-> z]

\* x * 100: the exact product has 6 or 7 bits more than a float holds and
\* is rounded to nearest, ties to even
Times100(x) ==
    LET p == Carry(<<100 * x.limbs[1], 100 * x.limbs[2], 100 * x.limbs[3]>>)
        n == IF p[1] >= 2^(HiBits + 6) THEN 7 ELSE 6
        rem == p[3] % 2^n
        up == rem > 2^(n - 1) \/ (rem = 2^(n - 1) /\ (p[3] \div 2^n) % 2 = 1)
    IN  [limbs |-> Carry(<<p[1], p[2], p[3] - rem + IF up THEN 2^n ELSE 0>>), z |-> x.z]

\* int(x)
Trunc(x) == x.limbs[1] \div 2^(HiBits + x.z)

\* int((i + 1) / total * 100), for done = i + 1
ProgressValue(done, total) == Trunc(Times100(TrueDiv(done, total)))

\* WordGeneratorThread.__init__, with the position of run()
Worker(data_rows, template_path, output_dir) ==
    [data_rows |-> data_rows, template_path |-> template_path,
     output_dir |-> output_dir, success_count |-> 0, i |-> 0, pc |-> "status"]

\* str(e) of the exceptions Document(template_path) and doc.save raise
ErrorMessages == {"cannot save document"}

-----------------------------------------------------------------------------
(* The spreadsheets and templates of the batch workflow *)

MakeRow(cols, vals) ==
    [c \in Range(cols) |-> vals[CHOOSE i \in 1..Len(cols) : cols[i] = c]]

DateColumns == <<F_student_id, F_name, F_class_name, date_field_names[1]>>
YearColumns == <<F_student_id, F_name, F_class_name, F_year>>
NoNameColumns == <<F_student_id, F_class_name, F_year>>

Year2024 == <<"2", "0", "2", "4">>

SheetRow(cols, student_id, v) ==
    MakeRow(cols, <<Str(student_id), Str(<<"n">>), Str(<<"c">>), v>>)

\* a text date and a datetime cell; an empty date cell; a year and an empty year cell;
\* a year alone; an empty year cell alone; two rows with the same student id, name
\* and class; two rows whose student ids differ in an illegal character; an empty
\* name cell; no name column
Sheets ==
    {[columns |-> DateColumns,
      rows |-> <<SheetRow(DateColumns, <<"1">>, Str(Year2024 \o <<"/", "3", "/", "0", "5">>)),
                 SheetRow(DateColumns, <<"2">>, DateTime(<<"2", "0", "2", "5">>, <<"7">>, <<"1", "5">>))>>],
     [columns |-> DateColumns,
      rows |-> <<SheetRow(DateColumns, <<"1">>, NaN)>>],
     [columns |-> YearColumns,
      rows |-> <<SheetRow(YearColumns, <<"1">>, Str(Year2024)),
                 SheetRow(YearColumns, <<"2">>, NaN)>>],
     [columns |-> YearColumns,
      rows |-> <<SheetRow(YearColumns, <<"1">>, Str(Year2024))>>],
     [columns |-> YearColumns,
      rows |-> <<SheetRow(YearColumns, <<"1">>, NaN)>>],
     [columns |-> YearColumns,
      rows |-> <<SheetRow(YearColumns, <<"1">>, Str(Year2024)),
                 SheetRow(YearColumns, <<"1">>, Str(Year2024))>>],
     [columns |-> YearColumns,
      rows |-> <<SheetRow(YearColumns, <<"7", "/">>, Str(Year2024)),
                 SheetRow(YearColumns, <<"7", "?">>, Str(Year2024))>>],
     [columns |-> YearColumns,
      rows |-> <<MakeRow(YearColumns, <<Str(<<"1">>), NaN, Str(<<"c">>), Str(Year2024)>>)>>],
     [columns |-> NoNameColumns,
      rows |-> <<MakeRow(NoNameColumns, <<Str(<<"1">>), Str(<<"c">>), Str(Year2024)>>)>>]}

\* {{xing ming}} split over two runs, {{nian}} and {{jie}} in a table cell
TemplateA ==
    Doc(<<RunParagraph(<<<<"{", "{", "xing">>, <<"ming", "}", "}">>>>)>>,
        <<OneCellTable(RunParagraph(<<Placeholder(F_year), <<"a">>, Placeholder(F_grade)>>))>>)

\* {{zhuan dang zi hao}} and {{nian}}
TemplateB ==
    Doc(<<RunParagraph(<<Placeholder(F_transfer_number)>>),
          RunParagraph(<<<<"a">>, Placeholder(F_year)>>)>>, <<>>)

TemplateFolders ==
    {[primary |-> Some(<<TemplateA>>), fallback |-> None],
     [primary |-> Some(<<TemplateB, TemplateA>>), fallback |-> None],
     [primary |-> None, fallback |-> Some(<<TemplateA>>)],
     [primary |-> Some(<<>>), fallback |-> Some(<<TemplateA>>)],
     [primary |-> Some(<<UnreadableDoc>>), fallback |-> None],
     [primary |-> None, fallback |-> None]}

\* what the user may type for a field of the MissingFieldsDialog
Entered(field) ==
    IF field = F_year THEN <<"2", "0", "2", "5">>
    ELSE IF field = F_grade THEN <<"2", "0", "2", "3">>
    ELSE <<"x">>

\* the orders in which dialog.fields may iterate over the set missing_fields
Orders(S) == {f \in [1..Cardinality(S) -> S] : \A i, j \in DOMAIN f : i # j => f[i] # f[j]}

\* get_values(): every field of the dialog with its stripped text, blank or not
DialogValues(S) ==
    UNION {{[i \in DOMAIN o |-> <<o[i], IF o[i] \in filled THEN Entered(o[i]) ELSE <<>>>>]
               : filled \in SUBSET S} : o \in Orders(S)}

MaxBatches == 1

-----------------------------------------------------------------------------
(* The main window: load_excel, the check boxes, batch_generate *)

\* the main window takes user input: no handler is running and no modal
\* progress dialog is shown
WindowFree == batch.pc = "idle" /\ ~progress_dialog.shown

Message(icon, title) == [icon |-> icon, title |-> title, text |-> None, count |-> None]

\* load_excel when pd.read_excel returns sheet
load_excel(sheet) ==
    /\ WindowFree
    /\ excel_data' = Some(process_date_fields(fillna(sheet)))
    /\ data_table' = display_data(data_table, process_date_fields(fillna(sheet)))
    /\ status_bar' = "loaded"
    /\ UNCHANGED <<batch, last_record, message_box, progress_dialog>>
    /\ UNCHANGED <<rvars, tvars, wvars>>

\* load_excel with a readable file
LoadExcel == \E sheet \in Sheets : load_excel(sheet)

\* the user ticks or unticks the check box of a row
ToggleCheck ==
    /\ WindowFree
    /\ \E r \in 1..Len(data_table.checks) :
        data_table' = [data_table EXCEPT !.checks[r] = ~@]
    /\ UNCHANGED <<excel_data, batch, last_record, message_box, status_bar, progress_dialog>>
    /\ UNCHANGED <<rvars, tvars, wvars>>

select_all ==
    /\ WindowFree /\ excel_data # None
    /\ data_table' = [data_table EXCEPT !.checks = [r \in DOMAIN @ |-> TRUE]]
    /\ UNCHANGED <<excel_data, batch, last_record, message_box, status_bar, progress_dialog>>
    /\ UNCHANGED <<rvars, tvars, wvars>>

deselect_all ==
    /\ WindowFree /\ excel_data # None
    /\ data_table' = [data_table EXCEPT !.checks = [r \in DOMAIN @ |-> FALSE]]
    /\ UNCHANGED <<excel_data, batch, last_record, message_box, status_bar, progress_dialog>>
    /\ UNCHANGED <<rvars, tvars, wvars>>

\* load_excel when pd.read_excel raises
LoadExcelFails ==
    /\ WindowFree
    /\ message_box' = Message("critical", "cannot read file")
    /\ UNCHANGED <<excel_data, data_table, batch, last_record, status_bar, progress_dialog>>
    /\ UNCHANGED <<rvars, tvars, wvars>>

\* the columns and texts of the cell edits followed here
EditColumns == {F_year, F_name}
EditTexts == {<<>>, <<"2", "0", "3", "1">>}

\* the user edits a cell of the table: itemChanged runs on_table_item_changed
EditCell ==
    /\ WindowFree
    /\ \E r \in 1..Len(data_table.items), c \in 2..Len(data_table.headers), text \in EditTexts :
        /\ data_table.headers[c] \in EditColumns
        /\ data_table' = SetItem(data_table, r, c, text)
    /\ UNCHANGED <<excel_data, batch, last_record, message_box, status_bar, progress_dialog>>
    /\ UNCHANGED <<rvars, tvars, wvars>>

\* selected_rows of batch_generate
SelectedRows(t) ==
    LET sel == {r \in 1..Len(t.checks) : t.checks[r]}
        F[n \in 0..Len(t.checks)] ==
            IF n = 0 THEN <<>>
            ELSE IF n \in sel THEN Append(F[n - 1], n) ELSE F[n - 1]
    IN  F[Len(t.checks)]

\* the generate button is enabled once a file was loaded
GenerateEnabled == WindowFree /\ excel_data # None

\* batch_generate: no row is ticked
BatchNoSelection ==
    /\ GenerateEnabled
    /\ SelectedRows(data_table) = <<>>
    /\ message_box' = Message("warning", "select a row")
    /\ UNCHANGED <<excel_data, data_table, batch, last_record, status_bar, progress_dialog>>
    /\ UNCHANGED <<rvars, tvars, wvars>>

\* batch_generate: get_template_variables returns None, after its own message
BatchNoTemplate ==
    /\ GenerateEnabled
    /\ SelectedRows(data_table) # <<>>
    /\ get_template_variables(template_dirs) = None
    /\ message_box' =
          IF TemplateDir(template_dirs) = None THEN Message("warning", "no template folder")
          ELSE IF TemplateFiles(template_dirs, TemplateDir(template_dirs)[1]) = <<>>
               THEN Message("warning", "no template file")
          ELSE Message("critical", "cannot read template")
    /\ UNCHANGED <<excel_data, data_table, batch, last_record, status_bar, progress_dialog>>
    /\ UNCHANGED <<rvars, tvars, wvars>>

\* batch_generate: the user cancels the output folder dialog
BatchNoOutputDir ==
    /\ GenerateEnabled
    /\ SelectedRows(data_table) # <<>>
    /\ get_template_variables(template_dirs) # None
    /\ UNCHANGED <<gvars, rvars, tvars, wvars>>

\* batch_generate up to the loop over selected_rows, in a session that
\* starts at most max workers
batch_generate(max) ==
    /\ GenerateEnabled
    /\ SelectedRows(data_table) # <<>>
    /\ get_template_variables(template_dirs) # None
    /\ launched < max
    /\ batch' = [pc |-> "records",
                 selected_rows |-> SelectedRows(data_table),
                 row_i |-> 1,
                 data_rows |-> <<>>,
                 template_path |-> Some(get_template_variables(template_dirs)[1][1]),
                 template_variables |-> get_template_variables(template_dirs)[1][2],
                 output_dir |-> Some("out")]
    /\ last_record' = NoRecord
    /\ UNCHANGED <<excel_data, data_table, message_box, status_bar, progress_dialog>>
    /\ UNCHANGED <<rvars, tvars, wvars>>

BatchStart == batch_generate(MaxBatches)

\* missing_fields of batch_generate
MissingFields(template_variables, row_data) ==
    {field \in template_variables :
        ~DictHas(row_data, field) \/ DictGet(row_data, field, <<>>) = <<>>}

\* the first column after the check box column whose header is name, or 0
FirstColumnOf(t, name) ==
    LET hits == {c \in 2..Len(t.headers) : t.headers[c] = name}
    IN  IF hits = {} THEN 0 ELSE Min(hits)

\* the loop over filled_values.items(): st is the pair of row_data and table
RECURSIVE ApplyFilled(_, _, _, _)
ApplyFilled(st, row_idx, filled_values, i) ==
    IF i > Len(filled_values) THEN st
    ELSE LET field == filled_values[i][1]
             value == filled_values[i][2]
             col == FirstColumnOf(st.table, field)
         IN  IF value = <<>> THEN ApplyFilled(st, row_idx, filled_values, i + 1)
             ELSE ApplyFilled(
                     [row_data |-> DictSet(st.row_data, field, value),
                      table |-> IF col > 0 THEN SetItem(st.table, row_idx, col, value)
                                ELSE st.table],
                     row_idx, filled_values, i + 1)

\* the branch dialog.exec() == Accepted of batch_generate
AcceptDialog(t, row_idx, row_data, filled_values) ==
    LET st == ApplyFilled([row_data |-> row_data, table |-> t], row_idx, filled_values, 1)
    IN  IF \E key \in {F_year, F_student_id, F_class_name} : DictHas(filled_values, key)
        THEN LET updated == update_transfer_number_for_row(st.table, row_idx)
             IN  [row_data |-> get_row_data_from_table(updated, row_idx),
                  table |-> updated]
        ELSE st

\* the end of one pass of the loop over selected_rows and, after the last
\* pass, the rest of batch_generate
EndOfRecord(data_rows) ==
    IF batch.row_i < Len(batch.selected_rows)
    THEN /\ batch' = [batch EXCEPT !.row_i = @ + 1, !.data_rows = data_rows]
         /\ UNCHANGED <<message_box, progress_dialog, wvars>>
    ELSE IF data_rows = <<>>
    THEN /\ batch' = Idle
         /\ message_box' = Message("warning", "no data to generate")
         /\ UNCHANGED <<progress_dialog, wvars>>
    ELSE /\ batch' = Idle
         /\ progress_dialog' = [shown |-> TRUE, label |-> None, value |-> 0]
         /\ generator_thread' = Some(Worker(data_rows, batch.template_path[1], batch.output_dir[1]))
         /\ launched' = launched + 1
         /\ emitted' = <<>>
         /\ UNCHANGED <<message_box, signals, output_files>>

CurrentRow == batch.selected_rows[batch.row_i]

CurrentRowData == get_row_data_from_table(data_table, CurrentRow)

CurrentMissing == MissingFields(batch.template_variables, CurrentRowData)

Record(dialog, filled_values, queued) ==
    [row |-> CurrentRow, row_data |-> CurrentRowData, missing |-> CurrentMissing,
     dialog |-> dialog, filled_values |-> filled_values, queued |-> queued]

\* one pass of the loop: no field is missing
RecordComplete ==
    /\ batch.pc = "records"
    /\ CurrentMissing = {}
    /\ last_record' = Record("none", <<>>, Some(CurrentRowData))
    /\ EndOfRecord(Append(batch.data_rows, CurrentRowData))
    /\ UNCHANGED <<excel_data, data_table, status_bar>>
    /\ UNCHANGED <<rvars, tvars>>

\* one pass of the loop: the user fills the dialog and accepts it
RecordAccept ==
    /\ batch.pc = "records"
    /\ CurrentMissing # {}
    /\ \E filled_values \in DialogValues(CurrentMissing) :
        LET st == AcceptDialog(data_table, CurrentRow, CurrentRowData, filled_values)
        IN  /\ data_table' = st.table
            /\ last_record' = Record("accepted", filled_values, Some(st.row_data))
            /\ EndOfRecord(Append(batch.data_rows, st.row_data))
    /\ UNCHANGED <<excel_data, status_bar>>
    /\ UNCHANGED <<rvars, tvars>>

\* variant of the Yes answer that forgets the continue: the record is queued
RecordSkipQueued ==
    /\ batch.pc = "records"
    /\ CurrentMissing # {}
    /\ last_record' = Record("skipped", <<>>, None)
    /\ EndOfRecord(Append(batch.data_rows, CurrentRowData))
    /\ UNCHANGED <<excel_data, data_table, status_bar>>
    /\ UNCHANGED <<rvars, tvars>>

\* one pass of the loop: the user cancels the dialog and answers Yes (skip)
RecordSkip ==
    /\ batch.pc = "records"
    /\ CurrentMissing # {}
    /\ last_record' = Record("skipped", <<>>, None)
    /\ EndOfRecord(batch.data_rows)
    /\ UNCHANGED <<excel_data, data_table, status_bar>>
    /\ UNCHANGED <<rvars, tvars>>

\* one pass of the loop: the user cancels the dialog and answers No (go on)
RecordProceed ==
    /\ batch.pc = "records"
    /\ CurrentMissing # {}
    /\ last_record' = Record("proceeded", <<>>, Some(CurrentRowData))
    /\ EndOfRecord(Append(batch.data_rows, CurrentRowData))
    /\ UNCHANGED <<excel_data, data_table, status_bar>>
    /\ UNCHANGED <<rvars, tvars>>

-----------------------------------------------------------------------------
(* WordGeneratorThread.run, one step per statement of the loop *)

Running == generator_thread # None /\ generator_thread[1].pc # "done"

ThreadStep(w) == generator_thread' = Some(w)

Emit(sig) ==
    /\ signals' = Append(signals, sig)
    /\ emitted' = Append(emitted, sig)

CurrentData == generator_thread[1].data_rows[generator_thread[1].i + 1]

\* self.status.emit(...)
WorkerStatus ==
    /\ Running /\ generator_thread[1].pc = "status"
    /\ Emit(StatusSignal(CurrentData))
    /\ ThreadStep([generator_thread[1] EXCEPT !.pc = "render"])
    /\ UNCHANGED <<launched, output_files, rvars, tvars, gvars>>

\* variant that reads the record from the table when it renders it
WorkerRenderLive ==
    /\ Running /\ generator_thread[1].pc = "render"
    /\ output_files' =
          LET live == get_row_data_from_table(
                          data_table, Min({generator_thread[1].i + 1, Len(data_table.items)}))
          IN  SaveFile(output_files, FileName(live),
                       RenderDocument(TemplateDocument(template_dirs, generator_thread[1].template_path),
                                      live))
    /\ ThreadStep([generator_thread[1] EXCEPT !.pc = "progress", !.success_count = @ + 1])
    /\ UNCHANGED <<launched, signals, emitted, rvars, tvars, gvars>>

\* self.generate_single_doc(data) returns; success_count += 1
WorkerRender ==
    /\ Running /\ generator_thread[1].pc = "render"
    /\ output_files' = SaveFile(output_files, FileName(CurrentData),
                                RenderDocument(TemplateDocument(template_dirs, generator_thread[1].template_path),
                                               CurrentData))
    /\ ThreadStep([generator_thread[1] EXCEPT !.pc = "progress", !.success_count = @ + 1])
    /\ UNCHANGED <<launched, signals, emitted, rvars, tvars, gvars>>

\* variant of the except clause placed inside the loop: the error is
\* emitted and the loop goes on with the next record
WorkerRaiseContinue ==
    /\ Running /\ generator_thread[1].pc = "render"
    /\ \E msg \in ErrorMessages : Emit(ErrorSignal(msg))
    /\ ThreadStep([generator_thread[1] EXCEPT
                      !.i = @ + 1,
                      !.pc = IF generator_thread[1].i + 1 < Len(generator_thread[1].data_rows)
                             THEN "status" ELSE "done"])
    /\ UNCHANGED <<launched, output_files, rvars, tvars, gvars>>

\* self.generate_single_doc(data) raises; except: self.error.emit(str(e))
WorkerRaise ==
    /\ Running /\ generator_thread[1].pc = "render"
    /\ \E msg \in ErrorMessages : Emit(ErrorSignal(msg))
    /\ ThreadStep([generator_thread[1] EXCEPT !.pc = "done"])
    /\ UNCHANGED <<launched, output_files, rvars, tvars, gvars>>

\* variant whose loop ends after the first record
WorkerProgressOnce ==
    /\ Running /\ generator_thread[1].pc = "progress"
    /\ Emit(ProgressSignal(ProgressValue(generator_thread[1].i + 1,
                                         Len(generator_thread[1].data_rows))))
    /\ ThreadStep([generator_thread[1] EXCEPT !.i = @ + 1, !.pc = "finished"])
    /\ UNCHANGED <<launched, output_files, rvars, tvars, gvars>>

\* self.progress.emit(progress), and the loop goes on or ends
WorkerProgress ==
    /\ Running /\ generator_thread[1].pc = "progress"
    /\ Emit(ProgressSignal(ProgressValue(generator_thread[1].i + 1,
                                         Len(generator_thread[1].data_rows))))
    /\ ThreadStep([generator_thread[1] EXCEPT
                      !.i = @ + 1,
                      !.pc = IF generator_thread[1].i + 1 < Len(generator_thread[1].data_rows)
                             THEN "status" ELSE "finished"])
    /\ UNCHANGED <<launched, output_files, rvars, tvars, gvars>>

\* self.finished.emit(success_count)
WorkerFinished ==
    /\ Running /\ generator_thread[1].pc = "finished"
    /\ Emit(FinishedSignal(generator_thread[1].success_count))
    /\ ThreadStep([generator_thread[1] EXCEPT !.pc = "done"])
    /\ UNCHANGED <<launched, output_files, rvars, tvars, gvars>>

-----------------------------------------------------------------------------
(* The slots connected in batch_generate, run by the GUI thread *)

Pending(kind) == signals # <<>> /\ Head(signals).kind = kind

\* progress_dialog.setValue
SetValue ==
    /\ Pending("progress")
    /\ progress_dialog' = [progress_dialog EXCEPT !.value = Head(signals).value[1]]
    /\ signals' = Tail(signals)
    /\ UNCHANGED <<excel_data, data_table, batch, last_record, message_box, status_bar>>
    /\ UNCHANGED <<generator_thread, launched, emitted, output_files, rvars, tvars>>

\* lambda msg: progress_dialog.setLabelText(msg)
SetLabelText ==
    /\ Pending("status")
    /\ progress_dialog' = [progress_dialog EXCEPT !.label = Head(signals).text]
    /\ signals' = Tail(signals)
    /\ UNCHANGED <<excel_data, data_table, batch, last_record, message_box, status_bar>>
    /\ UNCHANGED <<generator_thread, launched, emitted, output_files, rvars, tvars>>

on_generation_finished ==
    /\ Pending("finished")
    /\ progress_dialog' = [progress_dialog EXCEPT !.shown = FALSE]
    /\ message_box' = [icon |-> "information", title |-> "done", text |-> None,
                       count |-> Head(signals).value]
    /\ status_bar' = "generated"
    /\ signals' = Tail(signals)
    /\ UNCHANGED <<excel_data, data_table, batch, last_record>>
    /\ UNCHANGED <<generator_thread, launched, emitted, output_files, rvars, tvars>>

on_generation_error ==
    /\ Pending("error")
    /\ progress_dialog' = [progress_dialog EXCEPT !.shown = FALSE]
    /\ message_box' = [icon |-> "critical", title |-> "error", text |-> Head(signals).text,
                       count |-> None]
    /\ status_bar' = "failed"
    /\ signals' = Tail(signals)
    /\ UNCHANGED <<excel_data, data_table, batch, last_record>>
    /\ UNCHANGED <<generator_thread, launched, emitted, output_files, rvars, tvars>>

-----------------------------------------------------------------------------
(* The data tab: imports, ticks and cell edits *)

NoParagraph ==
    /\ runs = <<>> /\ orig_runs = <<>> /\ prev_runs = <<>>
    /\ data = <<>> /\ key_i = 1 /\ full_text = <<>>

TableInit ==
    /\ template_dirs = [primary |-> None, fallback |-> None]
    /\ template_info = None
    /\ excel_file = None
    /\ NoParagraph
    /\ WindowInit

TableNext ==
    \/ LoadExcel
    \/ LoadExcelFails
    \/ ToggleCheck
    \/ select_all
    \/ deselect_all
    \/ EditCell

SpecTable == TableInit /\ [][TableNext]_vars

-----------------------------------------------------------------------------
(* A press of the generate button, with the worker it starts.  The window  *)
(* has imported a sheet and rows are ticked; the template folders are as   *)
(* found on disk.                                                          *)

Imported(sheet) == process_date_fields(fillna(sheet))

Ticked(t) == {[t EXCEPT !.checks = checks] : checks \in [1..Len(t.checks) -> BOOLEAN]}

Init ==
    /\ template_dirs \in TemplateFolders
    /\ template_info = None
    /\ excel_file = None
    /\ NoParagraph
    /\ \E sheet \in Sheets :
        /\ excel_data = Some(Imported(sheet))
        /\ data_table \in Ticked(display_data(EmptyTable, Imported(sheet)))
    /\ batch = Idle
    /\ last_record = NoRecord
    /\ message_box = NoMessage
    /\ status_bar = "loaded"
    /\ progress_dialog = NoProgress
    /\ generator_thread = None
    /\ launched = 0
    /\ signals = <<>>
    /\ emitted = <<>>
    /\ output_files = <<>>

Next ==
    \/ BatchNoSelection
    \/ BatchNoTemplate
    \/ BatchNoOutputDir
    \/ BatchStart
    \/ RecordComplete
    \/ RecordAccept
    \/ RecordSkip
    \/ RecordProceed
    \/ WorkerStatus
    \/ WorkerRender
    \/ WorkerRaise
    \/ WorkerProgress
    \/ WorkerFinished
    \/ SetValue
    \/ SetLabelText
    \/ on_generation_finished
    \/ on_generation_error

Spec == Init /\ [][Next]_vars

-----------------------------------------------------------------------------
(* Properties of batch_generate *)

NonBlank(row_data, field) ==
    DictHas(row_data, field) /\ DictGet(row_data, field, <<>>) # <<>>

\* C3: for every selected record the fields shown as missing are the
\* template's identifiers minus the composite field minus the fields the
\* record holds with a non-blank value; the composite field is never asked.
C3_MissingExcludesComposite ==
    batch.pc = "records" =>
        /\ CurrentMissing = {field \in batch.template_variables \ {F_transfer_number} :
                                ~NonBlank(CurrentRowData, field)}
        /\ F_transfer_number \notin CurrentMissing

\* C4: after the user accepts the dialog, every non-blank entered value is
\* in the queued record, also for a field without a column and also when
\* year, student id or class was asked; a field left blank in the dialog
\* keeps the value it had (the composite field aside, which is re-derived).
C4_QueuedHoldsEnteredValues ==
    last_record.dialog = "accepted" =>
        \A i \in 1..Len(last_record.filled_values) :
            LET field == last_record.filled_values[i][1]
                value == last_record.filled_values[i][2]
                queued == last_record.queued[1]
            IN  IF value # <<>>
                THEN DictHas(queued, field) /\ DictGet(queued, field, <<>>) = value
                ELSE field # F_transfer_number =>
                        /\ DictHas(queued, field) = DictHas(last_record.row_data, field)
                        /\ DictGet(queued, field, <<>>) = DictGet(last_record.row_data, field, <<>>)

\* C8: in every document the worker has written, no placeholder the scanner
\* found in the template remains as a literal token.
C8_NoDiscoveredTokenRemains ==
    \A name \in DOMAIN output_files :
        \A par \in AllParagraphs(output_files[name]) :
            \A w \in get_template_variables(template_dirs)[1][2] :
                ~Contains(Join(par.runs), Placeholder(w))

-----------------------------------------------------------------------------
(* Properties of the import *)

Present(df, idx, col) ==
    /\ HasColumn(df, col)
    /\ df.rows[idx][col].kind # "nan"
    /\ Strip(CellStr(df.rows[idx][col])) # <<>>

\* C5: after an import, every record whose year, student id and class are
\* present and non-blank has the composite field stored, equal to the last
\* two characters of the year + student id + "_" + class, whether or not
\* the sheet has a date source column.
C5_ImportDerivesComposite ==
    excel_data # None =>
        \A idx \in 1..Len(excel_data[1].rows) :
            (Present(excel_data[1], idx, F_year)
             /\ Present(excel_data[1], idx, F_student_id)
             /\ Present(excel_data[1], idx, F_class_name))
            => /\ HasColumn(excel_data[1], F_transfer_number)
               /\ CellStr(excel_data[1].rows[idx][F_transfer_number])
                    = YearSuffix(CellStr(excel_data[1].rows[idx][F_year]))
                      \o CellStr(excel_data[1].rows[idx][F_student_id]) \o <<"_">>
                      \o CellStr(excel_data[1].rows[idx][F_class_name])

-----------------------------------------------------------------------------
(* Properties of WordGeneratorThread.run *)

Kinds(kind) == {i \in 1..Len(emitted) : emitted[i].kind = kind}

\* the worker has emitted error
Failed == generator_thread # None /\ Kinds("error") # {}

FailFastState ==
    Failed =>
        /\ generator_thread[1].pc = "done"
        /\ Kinds("error") = {Len(emitted)}
        /\ generator_thread[1].i = generator_thread[1].success_count
        /\ Cardinality(Kinds("progress")) = generator_thread[1].success_count
        /\ Cardinality(Kinds("status")) = generator_thread[1].success_count + 1
        /\ \A k \in 1..generator_thread[1].success_count :
              FileName(generator_thread[1].data_rows[k]) \in DOMAIN output_files

FailFastStep ==
    (Failed /\ launched' = launched) =>
        UNCHANGED <<generator_thread, emitted, output_files>>

\* C6: the worker is fail-fast.  Once record k has raised, the worker has
\* stopped at record k: no later record is rendered or saved, no further
\* notification is emitted, and the documents of the records before k stay
\* in the output folder.
C6_FailFast == [](FailFastState) /\ [][FailFastStep]_vars

\* the second of two records raised: one document written, and the slot
\* on_generation_error has run
C6_Witness ==
    /\ Failed
    /\ Len(generator_thread[1].data_rows) = 2
    /\ generator_thread[1].success_count = 1
    /\ DOMAIN output_files = {FileName(generator_thread[1].data_rows[1])}
    /\ FileName(generator_thread[1].data_rows[2]) \notin DOMAIN output_files
    /\ signals = <<>>
    /\ message_box.icon = "critical"

\* C7: when a record fails, the caller is given the error together with the
\* number of records already rendered.
C7_ErrorCarriesCount ==
    (Failed /\ signals = <<>>) =>
        /\ message_box.text = emitted[Len(emitted)].text
        /\ message_box.count = Some(generator_thread[1].success_count)

-----------------------------------------------------------------------------
(* The outcome of each selected record *)

\* data_rows after a pass of the loop: still in the handler, handed to the
\* worker, or dropped with the warning that nothing is to be generated
QueueAfterPass ==
    IF batch'.pc = "records" THEN batch'.data_rows
    ELSE IF launched' # launched THEN generator_thread'[1].data_rows
    ELSE <<>>

OutcomeOfRecord ==
    last_record.row # 0 =>
        /\ last_record.dialog \in {"none", "accepted", "skipped", "proceeded"}
        /\ (last_record.dialog = "none") = (last_record.missing = {})
        /\ (last_record.queued = None) = (last_record.dialog = "skipped")
        /\ last_record.dialog \in {"none", "proceeded"}
              => last_record.queued = Some(last_record.row_data)

SelectionInTableOrder ==
    batch.pc = "records" =>
        /\ batch.row_i \in 1..Len(batch.selected_rows)
        /\ \A i, j \in 1..Len(batch.selected_rows) :
              i < j => batch.selected_rows[i] < batch.selected_rows[j]

PassOfRecord ==
    (batch.pc = "records" /\ batch' # batch) =>
        /\ last_record'.row = batch.selected_rows[batch.row_i]
        /\ QueueAfterPass = IF last_record'.queued = None THEN batch.data_rows
                            ELSE Append(batch.data_rows, last_record'.queued[1])
        /\ batch'.pc = "records" =>
              /\ batch'.row_i = batch.row_i + 1
              /\ batch'.selected_rows = batch.selected_rows

\* C11: each selected record ends either queued or skipped.  A record with
\* nothing missing is queued without a dialog; a record is skipped only on
\* cancel followed by the answer to skip; cancel followed by the answer to go
\* on queues the record as read from the table; the passes run over the
\* selected rows in table order and each queued record is appended at the
\* end of the queue.
C11_RecordOutcomes ==
    [](OutcomeOfRecord /\ SelectionInTableOrder) /\ [][PassOfRecord]_vars

\* of two selected rows the first was queued after cancel and go on, the
\* second was skipped, and the worker was started with the first alone
C11_Witness ==
    /\ last_record.row = 2
    /\ last_record.dialog = "skipped"
    /\ launched = 1
    /\ Len(generator_thread[1].data_rows) = 1
    /\ DictGet(generator_thread[1].data_rows[1], F_student_id, <<>>) = <<"1">>

-----------------------------------------------------------------------------
(* The composite field of a table row *)

\* the value of a field in the record of row r, '' when the record lacks it
TableField(t, r, name) == DictGet(get_row_data_from_table(t, r), name, <<>>)

InputsOf(t, r) ==
    <<TableField(t, r, F_year), TableField(t, r, F_student_id), TableField(t, r, F_class_name)>>

InputsNonBlank(t, r) == \A i \in 1..3 : InputsOf(t, r)[i] # <<>>

FormulaOf(year, student_id, class_name) ==
    YearSuffix(year) \o student_id \o <<"_">> \o class_name

\* a cell edit or a confirmed dialog changed the table
TableModified == (EditCell \/ RecordAccept) /\ data_table' # data_table

CompositeFollowsInputs ==
    TableModified =>
        \A r \in 1..Len(data_table.items) :
            /\ (InputsOf(data_table', r) # InputsOf(data_table, r)
                /\ InputsNonBlank(data_table', r))
               => TableField(data_table', r, F_transfer_number)
                     = FormulaOf(InputsOf(data_table', r)[1], InputsOf(data_table', r)[2],
                                 InputsOf(data_table', r)[3])
            /\ InputsOf(data_table', r) = InputsOf(data_table, r)
               => TableField(data_table', r, F_transfer_number)
                     = TableField(data_table, r, F_transfer_number)

QueuedCompositeFollowsInputs ==
    (last_record.dialog = "accepted"
     /\ \E i \in 1..Len(last_record.filled_values) :
           /\ last_record.filled_values[i][1] \in {F_year, F_student_id, F_class_name}
           /\ last_record.filled_values[i][2] # <<>>
     /\ \A f \in {F_year, F_student_id, F_class_name} : NonBlank(last_record.queued[1], f))
    => DictGet(last_record.queued[1], F_transfer_number, <<>>)
          = FormulaOf(DictGet(last_record.queued[1], F_year, <<>>),
                      DictGet(last_record.queued[1], F_student_id, <<>>),
                      DictGet(last_record.queued[1], F_class_name, <<>>))

\* C12: after a cell edit or a confirmed dialog changed the year, the
\* student id or the class of a row, with all three non-blank, the row's
\* composite field is last two characters of the year + student id + "_" +
\* class over the current values; a change of any other field leaves the
\* composite field as it was.
C12_CompositeIsFunctionOfInputs ==
    [](QueuedCompositeFollowsInputs) /\ [][CompositeFollowsInputs]_vars

-----------------------------------------------------------------------------
(* load_excel on one file whose rows carry a date text *)

DateYears == {<<"2", "0", "2", "4">>, <<"2", "4">>}
DateMonths == {<<"3">>, <<"0", "3">>, <<"0", "0">>, <<"x", "3">>, <<>>}
DateDays == {<<"0", "5">>, <<"5">>, <<"0", "x">>}
DateSeparators == {"/", "-"}
DateLeads == {<<>>, <<" ">>}
DateTails == {<<>>, <<" ">>, <<" ", "1", ":", "0">>}

\* Y sep M sep D with the same or with mixed separators, alone or with
\* a blank or a time of day around it
ThreePartDates ==
    {lead \o y \o <<s1>> \o m \o <<s2>> \o d \o tail :
        lead \in DateLeads, y \in DateYears, s1 \in DateSeparators, m \in DateMonths,
        s2 \in DateSeparators, d \in DateDays, tail \in DateTails}

\* texts with no separator, with fewer and with more than three parts
OtherDates ==
    {<<>>, <<"x">>, Year2024, Year2024 \o <<"0", "3", "0", "5">>,
     Year2024 \o <<" ", "3", " ", "0", "5">>,
     Year2024 \o <<"/", "3">>, Year2024 \o <<"-", "3">>,
     Year2024 \o <<"/", "3", "/", "0", "5", "/", "7">>,
     Year2024 \o <<"-", "3", "-", "0", "5", "-", "7">>,
     Year2024 \o <<"/", "3", "/", "0", "5", "/", "7", " ", "1", ":", "0">>}

DateCells ==
    {Str(t) : t \in ThreePartDates \cup OtherDates}
    \cup {NaN, DateTime(<<"2", "0", "2", "5">>, <<"7">>, <<"1", "5">>)}

DateOnlyColumns == <<date_field_names[1]>>
DatePartColumns == <<date_field_names[1], F_year, F_month, F_day>>

\* the date column alone; with year, month and day columns already
\* filled in; with the columns of the composite field
DateSheets ==
    {[columns |-> DateOnlyColumns, rows |-> <<MakeRow(DateOnlyColumns, <<v>>)>>]
        : v \in DateCells}
    \cup {[columns |-> DatePartColumns,
           rows |-> <<MakeRow(DatePartColumns,
                              <<v, Str(<<"1", "9", "9", "9">>), Str(<<"1", "2">>),
                                Str(<<"3", "1">>)>>)>>] : v \in DateCells}
    \cup {[columns |-> DateColumns, rows |-> <<SheetRow(DateColumns, <<"1">>, v)>>]
        : v \in DateCells}

ImportInit ==
    /\ template_dirs = [primary |-> None, fallback |-> None]
    /\ template_info = None
    /\ excel_file \in {Some(sheet) : sheet \in DateSheets}
    /\ NoParagraph
    /\ WindowInit

\* load_excel on the file
LoadExcelFile == excel_file # None /\ load_excel(excel_file[1])

ImportNext == LoadExcelFile

SpecImport == ImportInit /\ [][ImportNext]_vars

\* the date cell of row idx of the file, and the record of the row after
\* the import
FileDate(idx) == excel_file[1].rows[idx][date_field_names[1]]

FieldIs(idx, c, t) ==
    HasColumn(excel_data[1], c) /\ excel_data[1].rows[idx][c] = Str(t)

\* the ways to read s as Y sep M sep D, alone or followed by a space and
\* more text: the positions of the two separators and of the end of D
DateForms(s) ==
    {f \in (1..Len(s)) \X (1..Len(s)) \X (1..(Len(s) + 1)) :
        /\ f[1] < f[2] /\ f[2] < f[3]
        /\ s[f[1]] \in DateSeparators /\ s[f[2]] = s[f[1]]
        /\ f[3] <= Len(s) => s[f[3]] = " "
        /\ \A i \in 1..(f[3] - 1) :
              i \notin {f[1], f[2]} => s[i] \notin DateSeparators \cup {" "}}

PurelyNumeric(t) == t # <<>> /\ \A i \in 1..Len(t) : t[i] \in Digits

WithoutLeadingZeros(t) ==
    LET nz == {i \in 1..Len(t) : t[i] # "0"}
    IN  IF nz = {} THEN <<"0">> ELSE SubSeq(t, Min(nz), Len(t))

MonthDayOf(t) == IF PurelyNumeric(t) THEN WithoutLeadingZeros(t) ELSE t

\* C13: after the import of a file, a row whose date text reads Y/M/D or
\* Y-M-D, alone or followed by a space and a time of day, has the year Y
\* with all its characters, the month M and the day D without leading zeros
\* when they are all digits and as written otherwise; nothing of the time of
\* day is stored.
C13_DatePartsStored ==
    (excel_file # None /\ excel_data # None) =>
        \A idx \in 1..Len(excel_file[1].rows) :
            FileDate(idx).kind = "str" =>
                \A f \in DateForms(FileDate(idx).s) :
                    /\ FieldIs(idx, F_year, SubSeq(FileDate(idx).s, 1, f[1] - 1))
                    /\ FieldIs(idx, F_month,
                               MonthDayOf(SubSeq(FileDate(idx).s, f[1] + 1, f[2] - 1)))
                    /\ FieldIs(idx, F_day,
                               MonthDayOf(SubSeq(FileDate(idx).s, f[2] + 1, f[3] - 1)))

\* "2024/3/05 1:0" over a row that had 1999, 12, 31: stored as 2024, 3, 5
C13_Witness ==
    /\ excel_file # None /\ excel_data # None
    /\ HasColumn(excel_file[1], F_year)
    /\ FileDate(1) = Str(Year2024 \o <<"/", "3", "/", "0", "5", " ", "1", ":", "0">>)
    /\ FieldIs(1, F_year, Year2024)
    /\ FieldIs(1, F_month, <<"3">>)
    /\ FieldIs(1, F_day, <<"5">>)

\* the text up to the first space of the stripped date text
DatePortion(s) ==
    LET t == Strip(s)
        sp == {i \in 1..Len(t) : t[i] = " "}
    IN  IF sp = {} THEN t ELSE SubSeq(t, 1, Min(sp) - 1)

Occurrences(t, c) == Cardinality({i \in 1..Len(t) : t[i] = c})

\* the number of parts of the date portion on the detected separator, 0
\* with neither separator
PartsOnDetected(t) ==
    IF Occurrences(t, "/") > 0 THEN Occurrences(t, "/") + 1
    ELSE IF Occurrences(t, "-") > 0 THEN Occurrences(t, "-") + 1
    ELSE 0

Malformed(s) == PartsOnDetected(DatePortion(s)) # 3

FieldUnchanged(idx, c) ==
    /\ HasColumn(excel_data[1], c) = HasColumn(excel_file[1], c)
    /\ HasColumn(excel_file[1], c) =>
          excel_data[1].rows[idx][c] = fillna(excel_file[1]).rows[idx][c]

\* C14: after the import of a file, a row whose date text has neither
\* separator, or whose date portion does not split into exactly three parts
\* on the detected separator, has the year, month and day it had in the
\* file (none where the file has no such column), and the row is imported.
C14_MalformedDateLeavesFields ==
    (excel_file # None /\ excel_data # None) =>
        /\ Len(excel_data[1].rows) = Len(excel_file[1].rows)
        /\ \A idx \in 1..Len(excel_file[1].rows) :
              (FileDate(idx).kind = "str" /\ Malformed(FileDate(idx).s)) =>
                  \A c \in {F_year, F_month, F_day} : FieldUnchanged(idx, c)

-----------------------------------------------------------------------------
(* The output folder of a batch *)

\* the worker has reported the success count n
Reported(n) == \E k \in 1..Len(emitted) : emitted[k] = FinishedSignal(n)

\* C15: when the worker of a batch of N queued records has reported the
\* success count N, the output folder holds N documents, also for records
\* with the same student id, name and class and for records whose names
\* differ only in characters that are replaced by "_".
C15_OneDocumentPerRecord ==
    (generator_thread # None /\ Reported(Len(generator_thread[1].data_rows))) =>
        Cardinality(DOMAIN output_files) = Len(generator_thread[1].data_rows)

\* a field of the record at generation time: the literal unknown when the
\* record has no such key or a blank value
FieldOrUnknown(d, k) == IF NonBlank(d, k) THEN DictGet(d, k, <<>>) ELSE unknown

ExpectedFileName(d) ==
    LET name == FieldOrUnknown(d, F_student_id) \o <<"_">> \o FieldOrUnknown(d, F_name)
                \o <<"_">> \o FieldOrUnknown(d, F_class_name) \o <<".", "d", "o", "c", "x">>
    IN  [i \in 1..Len(name) |-> IF name[i] \in IllegalChars THEN "_" ELSE name[i]]

LegalNames == \A n \in DOMAIN output_files : \A i \in 1..Len(n) : n[i] \notin IllegalChars

\* the step of the worker that saves the document of a record
SavedAs ==
    output_files' # output_files =>
        DOMAIN output_files' = DOMAIN output_files \cup {ExpectedFileName(CurrentData)}

\* C16: the document of a record is saved under <student id>_<name>_<class>.docx
\* with each of the nine illegal characters replaced by "_" and with the
\* literal unknown for a field the record lacks or holds blank; no file
\* name of the output folder contains an illegal character.
C16_FileNameOfRecord == [](LegalNames) /\ [][SavedAs]_vars

-----------------------------------------------------------------------------
(* WordGeneratorThread.run on a queue of complete records: the state after *)
(* batch_generate has started the worker for n ticked rows                 *)

MaxQueue == 50

\* {{xing ming}} alone
TemplateC == Doc(<<RunParagraph(<<Placeholder(F_name)>>)>>, <<>>)

QueueSheet(n) ==
    [columns |-> YearColumns,
     rows |-> [r \in 1..n |-> SheetRow(YearColumns, <<"1">>, Str(Year2024))]]

\* the table display_data shows for QueueSheet(n), with every row ticked
QueueTable(n) ==
    [headers |-> <<F_select>> \o YearColumns,
     items |-> [r \in 1..n |->
                  <<Some(<<>>), Some(<<"1">>), Some(<<"n">>), Some(<<"c">>), Some(Year2024)>>],
     checks |-> [r \in 1..n |-> TRUE]]

WorkerInit ==
    /\ template_dirs = [primary |-> Some(<<TemplateC>>), fallback |-> None]
    /\ template_info = None
    /\ excel_file = None
    /\ NoParagraph
    /\ \E n \in 1..MaxQueue :
        LET t == QueueTable(n)
            rows == [r \in 1..n |-> get_row_data_from_table(t, r)]
        IN  /\ excel_data = Some(Imported(QueueSheet(n)))
            /\ data_table = t
            /\ last_record = [row |-> n, row_data |-> rows[n], missing |-> {},
                              dialog |-> "none", filled_values |-> <<>>,
                              queued |-> Some(rows[n])]
            /\ generator_thread = Some(Worker(rows, "primary", "out"))
    /\ batch = Idle
    /\ message_box = NoMessage
    /\ status_bar = "loaded"
    /\ progress_dialog = [shown |-> TRUE, label |-> None, value |-> 0]
    /\ launched = 1
    /\ signals = <<>>
    /\ emitted = <<>>
    /\ output_files = <<>>

WorkerNext ==
    \/ WorkerStatus
    \/ WorkerRender
    \/ WorkerRaise
    \/ WorkerProgress
    \/ WorkerFinished

SpecWorker == WorkerInit /\ [][WorkerNext]_vars

IsProgress(sig) == sig.kind = "progress"

\* the progress notifications emitted so far, in order
ProgressSeq == SelectSeq(emitted, IsProgress)

\* the success counter is the number of progress notifications emitted
CounterIsProgressCount ==
    generator_thread # None => generator_thread[1].success_count = Len(ProgressSeq)

\* the k-th progress value is floor(100 * k / total), values never decrease,
\* and 100 is the value of the last record and of no other
ProgressFormula ==
    generator_thread # None =>
        \A k \in 1..Len(ProgressSeq) :
            /\ ProgressSeq[k].value[1] = (100 * k) \div Len(generator_thread[1].data_rows)
            /\ k > 1 => ProgressSeq[k].value[1] >= ProgressSeq[k - 1].value[1]
            /\ ProgressSeq[k].value[1] = 100 <=> k = Len(generator_thread[1].data_rows)

\* for the record after the ones whose progress was emitted: status, then
\* the save with the increment of the counter, then progress
EventOrder ==
    (generator_thread # None /\ generator_thread' # None) =>
        LET w == generator_thread[1]
            j == Len(ProgressSeq) + 1
        IN  /\ (emitted' # emitted /\ emitted'[Len(emitted')].kind = "status") =>
                  /\ w.success_count = j - 1
                  /\ emitted'[Len(emitted')] = StatusSignal(w.data_rows[j])
                  /\ output_files' = output_files
            /\ generator_thread'[1].success_count # w.success_count =>
                  /\ emitted # <<>>
                  /\ emitted[Len(emitted)] = StatusSignal(w.data_rows[j])
                  /\ w.success_count = j - 1
                  /\ generator_thread'[1].success_count = j
                  /\ FileName(w.data_rows[j]) \in DOMAIN output_files'
                  /\ emitted' = emitted
            /\ (emitted' # emitted /\ emitted'[Len(emitted')].kind = "progress") =>
                  /\ w.success_count = j
                  /\ FileName(w.data_rows[j]) \in DOMAIN output_files
                  /\ output_files' = output_files

\* C17: in run(), for each record in queue order, the status notification
\* comes first, then the save and the increment of the success counter, then
\* the progress notification; in every state the success counter is the
\* number of progress notifications emitted so far; the k-th progress value
\* is floor(100 * k / total), the values never decrease, and 100 is emitted
\* exactly for the last record.
C17_RunEvents ==
    [](CounterIsProgressCount /\ ProgressFormula) /\ [][EventOrder]_vars

-----------------------------------------------------------------------------
(* Template discovery and the batch *)

\* the folder the discovery looks into: ./template when it exists, else
\* ./muban
ChosenFolder(dirs) == IF dirs.primary # None THEN dirs.primary ELSE dirs.fallback

\* no folder, no .docx file in the chosen folder, or a first file that
\* cannot be read
DiscoveryFails(dirs) ==
    \/ ChosenFolder(dirs) = None
    \/ ChosenFolder(dirs)[1] = <<>>
    \/ ~ChosenFolder(dirs)[1][1].readable

NothingProcessed ==
    /\ batch = Idle
    /\ last_record = NoRecord
    /\ ~progress_dialog.shown
    /\ generator_thread = None
    /\ launched = 0
    /\ signals = <<>>
    /\ emitted = <<>>
    /\ output_files = <<>>

NothingModified == data_table' = data_table /\ excel_data' = excel_data

\* a started batch reads the template of the chosen folder
TemplateOfChosenFolder ==
    batch.pc = "records" =>
        batch.template_path =
            Some(IF template_dirs.primary # None THEN "primary" ELSE "fallback")

\* C18: when template discovery fails (neither folder exists, or the chosen
\* folder holds no .docx file, or the file cannot be read), no record is
\* processed: no pass of the record loop and no dialog, no change of the
\* records or the table, no worker, no notification, no output file.  The
\* fallback folder is looked at only when the primary folder does not exist.
C18_DiscoveryFailureAborts ==
    /\ []((DiscoveryFails(template_dirs) => NothingProcessed) /\ TemplateOfChosenFolder)
    /\ [][DiscoveryFails(template_dirs) => NothingModified]_vars

\* generate is pressed with an empty ./template next to a ./muban that
\* holds a template
C18_Witness ==
    /\ template_dirs.primary = Some(<<>>)
    /\ template_dirs.fallback # None
    /\ DiscoveryFails(template_dirs)
    /\ message_box = Message("warning", "no template file")

-----------------------------------------------------------------------------
(* A batch over one record whose progress dialog the user may cancel:      *)
(* the dialog hides, nothing is connected to its canceled signal, and the  *)
(* worker goes on while the table takes edits again.  Whether Qt shows the *)
(* dialog again on a later setValue is not followed: the window stays free.*)

\* the cancel button of the QProgressDialog
CancelProgress ==
    /\ progress_dialog.shown
    /\ progress_dialog' = [progress_dialog EXCEPT !.shown = FALSE]
    /\ UNCHANGED <<excel_data, data_table, batch, last_record, message_box, status_bar>>
    /\ UNCHANGED <<rvars, tvars, wvars>>

\* a cell edit while the worker runs
EditWhileRunning == Running /\ EditCell

\* one row with an empty date cell; one row with a datetime cell
CancelSheets ==
    {[columns |-> DateColumns,
      rows |-> <<SheetRow(DateColumns, <<"1">>, NaN)>>],
     [columns |-> DateColumns,
      rows |-> <<SheetRow(DateColumns, <<"1">>, DateTime(<<"2", "0", "2", "5">>, <<"7">>, <<"1", "5">>))>>]}

CancelInit ==
    /\ template_dirs \in TemplateFolders
    /\ template_info = None
    /\ excel_file = None
    /\ NoParagraph
    /\ \E sheet \in CancelSheets :
        /\ excel_data = Some(Imported(sheet))
        /\ data_table \in Ticked(display_data(EmptyTable, Imported(sheet)))
    /\ batch = Idle
    /\ last_record = NoRecord
    /\ message_box = NoMessage
    /\ status_bar = "loaded"
    /\ progress_dialog = NoProgress
    /\ generator_thread = None
    /\ launched = 0
    /\ signals = <<>>
    /\ emitted = <<>>
    /\ output_files = <<>>

\* the steps of the first batch of the session
CancelNext ==
    \/ BatchNoSelection
    \/ BatchNoTemplate
    \/ BatchNoOutputDir
    \/ launched = 0 /\ BatchStart
    \/ RecordComplete
    \/ RecordAccept
    \/ RecordSkip
    \/ RecordProceed
    \/ WorkerStatus
    \/ WorkerRender
    \/ WorkerRaise
    \/ WorkerProgress
    \/ WorkerFinished
    \/ SetValue
    \/ SetLabelText
    \/ on_generation_finished
    \/ on_generation_error
    \/ CancelProgress
    \/ EditWhileRunning

SpecCancel == CancelInit /\ [][CancelNext]_vars

\* a pass of the record loop, the only step that shows a fill dialog or the
\* skip question, leaves the worker and its notifications alone unless it is
\* the last pass, which starts a worker that has emitted nothing
PassBeforeStart ==
    (batch.pc = "records" /\ batch' # batch) =>
        IF launched' = launched
        THEN generator_thread' = generator_thread /\ emitted' = emitted
        ELSE /\ batch'.pc = "idle"
             /\ emitted' = <<>>
             /\ generator_thread'[1].pc = "status"
             /\ generator_thread'[1].i = 0
             /\ generator_thread'[1].data_rows = QueueAfterPass

\* a worker is started by the last pass of the record loop only
StartedByLastPass == launched' # launched => batch.pc = "records" /\ batch'.pc = "idle"

\* a running worker has a step to take, whatever the window shows; at the
\* comparison of i + 1 with the length of the queue the guard of
\* WorkerProgress, the position alone, stands for the step
NeverWaits ==
    Running =>
        \/ generator_thread[1].pc = "status" /\ ENABLED WorkerStatus
        \/ generator_thread[1].pc = "render" /\ ENABLED (WorkerRaise \/ WorkerRender)
        \/ generator_thread[1].pc = "progress"
        \/ generator_thread[1].pc = "finished" /\ ENABLED WorkerFinished

\* the queue of a started worker never changes
QueueFixed ==
    (generator_thread # None /\ launched' = launched) =>
        /\ generator_thread' # None
        /\ generator_thread'[1].data_rows = generator_thread[1].data_rows

\* a save writes the document rendered from the queued record
RendersQueued ==
    output_files' # output_files =>
        output_files' =
            SaveFile(output_files, FileName(CurrentData),
                     RenderDocument(TemplateDocument(template_dirs,
                                                     generator_thread[1].template_path),
                                    CurrentData))

-----------------------------------------------------------------------------
(* The composite field of the rows of the table *)

\* item(row, col).text() of the column headed name, '' without column or item
CellText(t, row, name) ==
    LET col == ColumnOf(t, name)
    IN  IF col = 0 THEN <<>>
        ELSE IF t.items[row][col] = None THEN <<>>
        ELSE t.items[row][col][1]

CompositeFollows(t, row) ==
    LET year == Strip(CellText(t, row, F_year))
        student_id == Strip(CellText(t, row, F_student_id))
        class_name == Strip(CellText(t, row, F_class_name))
        composite == CellText(t, row, F_transfer_number)
    IN  \/ composite = <<>>
        \/ /\ year # <<>> /\ student_id # <<>> /\ class_name # <<>>
           /\ composite = TransferNumber(year, student_id, class_name)

\* C20: in every state of the table the composite field of a row is blank
\* or is the formula applied to the year, student id and class the row
\* shows now; after an edit that blanks one of the three the composite
\* field is blank.
C20_CompositeBlankOrCurrent ==
    \A row \in 1..Len(data_table.items) : CompositeFollows(data_table, row)

-----------------------------------------------------------------------------
(* The frame of replace_placeholder_in_runs *)

\* the runs whose interval [start, end) overlaps the occurrence located by
\* text.find(placeholder)
LocatedRuns(rs, placeholder) ==
    LET pos == Find(Join(rs), placeholder)
    IN  IF pos = -1 THEN {} ELSE HoldingRuns(rs, pos, Len(placeholder))

\* the call made for the key at key_i: as many runs afterwards, the text of
\* every run outside the occurrence kept, and of the runs of the occurrence
\* all but the first emptied
RunsFrame ==
    key_i <= Len(data) =>
        LET over == LocatedRuns(runs, Placeholder(data[key_i][1]))
        IN  /\ Len(runs') = Len(runs)
            /\ \A i \in 1..Len(runs) : i \notin over => runs'[i] = runs[i]
            /\ Contains(full_text, Placeholder(data[key_i][1])) =>
                   \A i \in over : i # Min(over) => runs'[i] = <<>>

\* C21: replace_placeholder_in_runs adds, removes and reorders no run and
\* changes the text of no run whose interval [start, end) does not overlap
\* the located occurrence; of the overlapping runs the first alone receives
\* text and the others are emptied.
C21_OnlyOverlappingRunsChange == [][RunsFrame]_vars

-----------------------------------------------------------------------------
(* The end of WordGeneratorThread.run *)

Terminal(sig) == sig.kind \in {"finished", "error"}

\* a terminal notification is the last one emitted: there is one at most and
\* no status or progress notification follows it
TerminalIsLast ==
    \A k \in 1..Len(emitted) : Terminal(emitted[k]) => k = Len(emitted)

\* run() has returned exactly when a terminal notification was emitted
EndsWithTerminal ==
    generator_thread # None =>
        (generator_thread[1].pc = "done"
            <=> (emitted # <<>> /\ Terminal(emitted[Len(emitted)])))

\* finished comes after the status and the progress notification of every
\* queued record, each record saved, and carries the length of the queue
FinishedAfterAllRecords ==
    (emitted # <<>> /\ emitted[Len(emitted)].kind = "finished") =>
        LET n == Len(generator_thread[1].data_rows)
        IN  /\ emitted[Len(emitted)].value = Some(n)
            /\ generator_thread[1].success_count = n
            /\ Len(emitted) = 2 * n + 1
            /\ \A j \in 1..n : /\ emitted[2 * j - 1].kind = "status"
                               /\ emitted[2 * j].kind = "progress"
            /\ output_files # <<>>

\* C22: a run of the worker ends with exactly one terminal notification,
\* finished or error, never both and never twice; no status or progress
\* notification comes after it; finished is emitted only when every queued
\* record was rendered and carries the length of the queue.
C22_OneTerminalNotification ==
    TerminalIsLast /\ EndsWithTerminal /\ FinishedAfterAllRecords

\* a queue of three records was rendered to its end
C22_Witness ==
    /\ generator_thread # None
    /\ generator_thread[1].pc = "done"
    /\ Len(generator_thread[1].data_rows) = 3
    /\ emitted # <<>>
    /\ emitted[Len(emitted)] = FinishedSignal(3)

-----------------------------------------------------------------------------
(* A session in which the generate button is pressed again: the progress   *)
(* dialog is window modal, so the button takes a press while a worker runs *)
(* once the user has cancelled the dialog.  After the step that replaces   *)
(* self.generator_thread the worker it held is not followed any further:   *)
(* whether that thread runs on or the process ends with its QThread object *)
(* is decided outside this program.                                        *)

MaxWorkers == 2

RestartNext ==
    \/ BatchNoSelection
    \/ BatchNoTemplate
    \/ BatchNoOutputDir
    \/ batch_generate(MaxWorkers)
    \/ RecordComplete
    \/ RecordAccept
    \/ RecordSkip
    \/ RecordProceed
    \/ WorkerStatus
    \/ WorkerRender
    \/ WorkerRaise
    \/ WorkerProgress
    \/ WorkerFinished
    \/ SetValue
    \/ SetLabelText
    \/ on_generation_finished
    \/ on_generation_error
    \/ CancelProgress

SpecRestart == CancelInit /\ [][RestartNext]_vars

\* the worker held by self.generator_thread has emitted finished or error
HasEnded ==
    /\ emitted # <<>>
    /\ Terminal(emitted[Len(emitted)])

\* the step that starts a worker and assigns self.generator_thread is taken
\* when no worker was started before or the one started has ended
StartsWhenNoneInFlight ==
    launched' # launched => (generator_thread = None \/ HasEnded)

\* C23: at most one worker is in flight: once batch_generate has started a
\* WordGeneratorThread, no action of the user, the cancel button of the
\* progress dialog included, starts a second worker or replaces
\* self.generator_thread before the first has emitted finished or error.
C23_OneWorkerInFlight == [][StartsWhenNoneInFlight]_vars

=============================================================================
